---------------------------- MODULE Spec2Model ----------------------------
(***************************************************************************)
(* Skipping-stone simulation core (dapgame): the phase state machine, the  *)
(* RK4 integrator, the clipping geometry and the force model.              *)
(*                                                                         *)
(* Numbers.  Every f64 of the program is a fixed-point integer: the value  *)
(* v is stored as v * Scale.  Additions, subtractions and comparisons are  *)
(* exact; products, quotients, square roots and sin/cos are rounded to the *)
(* nearest representable value, sign-symmetrically, one operation at a     *)
(* time, as f64 rounds every operation.  A threshold below the resolution  *)
(* (1e-9, 1e-12) is compared exactly: a stored value is below it exactly   *)
(* when it is <= 0.                                                        *)
(***************************************************************************)
EXTENDS Integers, Sequences, FiniteSets, TLC

VARIABLES
    system,   \* the CustomSettings object (coefficients, phase, cached Sim/polygon, stone)
    solver,   \* the RungeKuttaSolver<StoneInfo>: [t, state]
    dt,       \* the fixed step handed to solver.step
    pc,       \* position of the driving loop / the last operation performed
    steps,    \* number of loop iterations started so far
    evals,    \* derivative evaluations of the last solver.step, in order: <<[t, y], ...>>
    y0,       \* the initial state the solver was constructed with
    trajectory, \* the Vec<Stamp> simulate returns
    prev_phase, \* system.phase before the last operation
    arg,      \* input of the pure function under check
    ret       \* its result(s)

vars == <<system, solver, dt, pc, steps, evals, y0, trajectory, prev_phase, arg, ret>>

-----------------------------------------------------------------------------
(* f64 arithmetic at resolution 1/Scale *)

Scale == 1000

Abs(a) == IF a < 0 THEN -a ELSE a
Sgn(a) == IF a < 0 THEN -1 ELSE IF a > 0 THEN 1 ELSE 0
Min(a, b) == IF a <= b THEN a ELSE b
Max(a, b) == IF a >= b THEN a ELSE b

\* let name = value; ... : the value is computed once and handed to the rest
Let(value, Rest(_)) == Rest(value)

\* n / d rounded to the nearest integer, halves away from zero (d # 0)
RoundDiv(n, d) ==
    Sgn(n) * Sgn(d) * ((2 * Abs(n) + Abs(d)) \div (2 * Abs(d)))

\* the decimal literal n/d
Dec(n, d) == RoundDiv(n * Scale, d)

\* a * b: the larger factor is split so that no partial product leaves 32 bits
Mul(a, b) ==
    LET big   == Max(Abs(a), Abs(b))
        small == Min(Abs(a), Abs(b))
    IN  Sgn(a) * Sgn(b)
          * ((big \div Scale) * small + RoundDiv((big % Scale) * small, Scale))

\* a / b, b # 0
Div(a, b) ==
    LET q == Abs(a) \div Abs(b)
        r == Abs(a) % Abs(b)
    IN  Sgn(a) * Sgn(b) * (q * Scale + RoundDiv(r * Scale, Abs(b)))

RECURSIVE ISqrtIter(_, _, _)
ISqrtIter(n, lo, hi) ==
    IF lo >= hi THEN lo
    ELSE LET mid == (lo + hi + 1) \div 2
         IN  IF mid * mid <= n THEN ISqrtIter(n, mid, hi)
                               ELSE ISqrtIter(n, lo, mid - 1)

\* f64::sqrt for a >= 0
Sqrt(a) ==
    Let(ISqrtIter(a * Scale, 0, 46340), LAMBDA r :
        IF a * Scale - r * r > r THEN r + 1 ELSE r)

Pi == Dec(31416, 10000)
HalfPi == Dec(15708, 10000)

\* the angle reduced to [-Pi, Pi]
WrapAngle(a) ==
    LET m == a % (2 * Pi)
    IN  IF m > Pi THEN m - 2 * Pi ELSE m

\* Taylor polynomials on [-Pi/2, Pi/2]
SinPoly(x) ==
    LET x2 == Mul(x, x)
        x3 == Mul(x2, x)
        x5 == Mul(x3, x2)
        x7 == Mul(x5, x2)
    IN  x - RoundDiv(x3, 6) + RoundDiv(x5, 120) - RoundDiv(x7, 5040)

CosPoly(x) ==
    LET x2 == Mul(x, x)
        x4 == Mul(x2, x2)
        x6 == Mul(x4, x2)
        x8 == Mul(x4, x4)
    IN  Scale - RoundDiv(x2, 2) + RoundDiv(x4, 24) - RoundDiv(x6, 720)
          + RoundDiv(x8, 40320)

\* f64::sin, f64::cos
Sin(a) ==
    LET w == WrapAngle(a)
    IN  IF w > HalfPi THEN SinPoly(Pi - w)
        ELSE IF w < -HalfPi THEN SinPoly(-Pi - w)
        ELSE SinPoly(w)

Cos(a) ==
    LET w == WrapAngle(a)
    IN  IF w > HalfPi THEN -CosPoly(Pi - w)
        ELSE IF w < -HalfPi THEN -CosPoly(-Pi - w)
        ELSE CosPoly(w)

\* f64::clamp
Clamp(a, lo, hi) == IF a < lo THEN lo ELSE IF a > hi THEN hi ELSE a

-----------------------------------------------------------------------------
(* basic_structs.rs: Vector2D *)

Vec2(x, y) == [x |-> x, y |-> y]
VZero == Vec2(0, 0)
VAdd(a, b) == Vec2(a.x + b.x, a.y + b.y)
VSub(a, b) == Vec2(a.x - b.x, a.y - b.y)
VScale(a, k) == Vec2(Mul(a.x, k), Mul(a.y, k))
length_squared(a) == Mul(a.x, a.x) + Mul(a.y, a.y)
length(a) == Sqrt(length_squared(a))
normalize(a) ==
    Let(length(a), LAMBDA len :
        IF len > 0 THEN VScale(a, Div(Scale, len)) ELSE a)

-----------------------------------------------------------------------------
(* physics/simulation.rs: StoneInfo and the geometry engine *)

StoneInfo(position, velocity, angle, angle_velocity) ==
    [position |-> position, velocity |-> velocity,
     angle |-> angle, angle_velocity |-> angle_velocity]

\* intersect_with_horizontal with the parameter t measured from p2
intersect_with_horizontal_from_p2(p1, p2, y) ==
    IF (p1.y - y) * (p2.y - y) > 0 THEN <<>>
    ELSE IF Abs(p1.y - p2.y) <= 0 THEN <<>>
    ELSE LET t == Div(y - p2.y, p1.y - p2.y)
         IN  <<Vec2(p1.x + Mul(t, p2.x - p1.x), y)>>

\* Option<Vector2D> as a sequence: <<>> is None, <<p>> is Some(p).
\* The sign test multiplies the stored values exactly: the sign of a product
\* does not depend on the resolution.
intersect_with_horizontal(p1, p2, y) ==
    IF (p1.y - y) * (p2.y - y) > 0 THEN <<>>
    ELSE IF Abs(p1.y - p2.y) <= 0 THEN <<>>
    ELSE LET t == Div(y - p1.y, p2.y - p1.y)
         IN  <<Vec2(p1.x + Mul(t, p2.x - p1.x), y)>>

\* the loop body pushing the current vertex of an inner edge, not the next
ClipEdge_push_cur(poly, i, line_y) ==
    LET n == Len(poly)
        cur == poly[i]
        next == poly[(i % n) + 1]
        cur_inside == cur.y < line_y
        next_inside == next.y < line_y
    IN  IF cur_inside /\ next_inside THEN <<cur>>
        ELSE IF cur_inside /\ ~next_inside
            THEN intersect_with_horizontal(cur, next, line_y)
        ELSE IF ~cur_inside /\ next_inside
            THEN intersect_with_horizontal(cur, next, line_y) \o <<next>>
        ELSE <<>>

\* what the loop body pushes for edge i (1-based; next wraps to the first vertex)
ClipEdge(poly, i, line_y) ==
    LET n == Len(poly)
        cur == poly[i]
        next == poly[(i % n) + 1]
        cur_inside == cur.y < line_y
        next_inside == next.y < line_y
    IN  IF cur_inside /\ next_inside THEN <<next>>
        ELSE IF cur_inside /\ ~next_inside
            THEN intersect_with_horizontal(cur, next, line_y)
        ELSE IF ~cur_inside /\ next_inside
            THEN intersect_with_horizontal(cur, next, line_y) \o <<next>>
        ELSE <<>>

RECURSIVE ClipFrom(_, _, _)
ClipFrom(poly, i, line_y) ==
    IF i > Len(poly) THEN <<>>
    ELSE ClipEdge(poly, i, line_y) \o ClipFrom(poly, i + 1, line_y)

clip_polygon_below_line(poly, line_y) ==
    IF Len(poly) = 0 THEN <<>> ELSE ClipFrom(poly, 1, line_y)

\* the shoelace term of edge i
Cross(poly, i) ==
    LET p1 == poly[i]
        p2 == poly[(i % Len(poly)) + 1]
    IN  Mul(p1.x, p2.y) - Mul(p2.x, p1.y)

RECURSIVE SumCross(_, _)
SumCross(poly, i) ==
    IF i > Len(poly) THEN 0 ELSE Cross(poly, i) + SumCross(poly, i + 1)

\* the shoelace sum halved without taking its magnitude
polygon_area_signed(poly) ==
    IF Len(poly) < 3 THEN 0
    ELSE Mul(SumCross(poly, 1), Dec(5, 10))

polygon_area(poly) ==
    IF Len(poly) < 3 THEN 0
    ELSE Mul(Abs(SumCross(poly, 1)), Dec(5, 10))

\* stone_phy.rs: the area of the blueprint outline, (sum / 2.0).abs()
\* the shoelace sum taken as the area without halving it
calculate_polygon_area_unhalved(points) ==
    IF Len(points) < 3 THEN 0
    ELSE Abs(SumCross(points, 1))

calculate_polygon_area(points) ==
    IF Len(points) < 3 THEN 0
    ELSE Abs(Div(SumCross(points, 1), Dec(2, 1)))

RECURSIVE SumX(_, _)
SumX(poly, i) == IF i > Len(poly) THEN 0 ELSE poly[i].x + SumX(poly, i + 1)

RECURSIVE SumY(_, _)
SumY(poly, i) == IF i > Len(poly) THEN 0 ELSE poly[i].y + SumY(poly, i + 1)

\* cx and cy of pressure_center: the sums of (p1 + p2) * cross over the edges
RECURSIVE SumCx(_, _)
SumCx(poly, i) ==
    IF i > Len(poly) THEN 0
    ELSE Mul(poly[i].x + poly[(i % Len(poly)) + 1].x, Cross(poly, i))
           + SumCx(poly, i + 1)

RECURSIVE SumCy(_, _)
SumCy(poly, i) ==
    IF i > Len(poly) THEN 0
    ELSE Mul(poly[i].y + poly[(i % Len(poly)) + 1].y, Cross(poly, i))
           + SumCy(poly, i + 1)

\* pressure_center whose fallback forgets to divide the sums by n
pressure_center_sum(clipped) ==
    IF Len(clipped) < 3 THEN Vec2(0, 0)
    ELSE Let(polygon_area(clipped), LAMBDA area :
             IF Abs(area) <= 0
             THEN Vec2(SumX(clipped, 1), SumY(clipped, 1))
             ELSE Let(Div(Scale, Mul(Dec(6, 1), area)), LAMBDA factor :
                      Vec2(Mul(SumCx(clipped, 1), factor),
                           Mul(SumCy(clipped, 1), factor))))

\* physics/derivative.rs: pressure_center.  area.abs() < 1e-9 is area <= 0.
pressure_center(clipped) ==
    IF Len(clipped) < 3 THEN Vec2(0, 0)
    ELSE Let(polygon_area(clipped), LAMBDA area :
             IF Abs(area) <= 0
             THEN Let(Len(clipped) * Scale, LAMBDA n :
                      Vec2(Div(SumX(clipped, 1), n), Div(SumY(clipped, 1), n)))
             ELSE Let(Div(Scale, Mul(Dec(6, 1), area)), LAMBDA factor :
                      Vec2(Mul(SumCx(clipped, 1), factor),
                           Mul(SumCy(clipped, 1), factor))))

\* the closure of the map: spin about the centre, then pitch, then translate
ToWorld(p, stone, cos_spin, sin_spin, cos_pitch, sin_pitch) ==
    LET x_spun == Mul(p.x, cos_spin) - Mul(p.y, sin_spin)
        y_spun == Mul(p.x, sin_spin) + Mul(p.y, cos_spin)
    IN  Vec2(stone.position.x + (Mul(x_spun, cos_pitch) - Mul(y_spun, sin_pitch)),
             stone.position.y + (Mul(x_spun, sin_pitch) + Mul(y_spun, cos_pitch)))

\* the map over outline_com, collected into a Vec
RECURSIVE OutlineFrom(_, _, _, _, _, _, _)
OutlineFrom(outline, stone, cos_spin, sin_spin, cos_pitch, sin_pitch, i) ==
    IF i > Len(outline) THEN <<>>
    ELSE <<ToWorld(outline[i], stone, cos_spin, sin_spin, cos_pitch, sin_pitch)>>
           \o OutlineFrom(outline, stone, cos_spin, sin_spin, cos_pitch, sin_pitch, i + 1)

outline_to_world(self, stone) ==
    LET spin == stone.angle.y
        cos_spin == Cos(spin)
        sin_spin == Sin(spin)
        pitch == stone.angle.x
        cos_pitch == Cos(pitch)
        sin_pitch == Sin(pitch)
    IN  OutlineFrom(self.stone.outline_com, stone,
                    cos_spin, sin_spin, cos_pitch, sin_pitch, 1)


-----------------------------------------------------------------------------
(* physics/parameters.rs: CustomSettings *)

CustomSettings_new(g, stone) ==
    [gravity |-> g,
     rho |-> Dec(1000, 1),
     Cl |-> Dec(2, 10),
     Cf |-> Dec(5, 100),
     Sim |-> Dec(1, 100),
     M |-> stone.mass,
     beta |-> Dec(2, 100),
     phase |-> "Flying",
     water_level |-> 0,
     stone |-> stone,
     current_submerged_polygon |-> <<>>]

-----------------------------------------------------------------------------
(* physics/simulation.rs: the phase state machine and the cached area *)

compute_vertical_force(self, stone) ==
    LET v2 == length_squared(stone.velocity)
    IN  Mul(Mul(Mul(Mul(Dec(5, 10), self.rho), v2), self.Sim), self.Cl)
          - Mul(self.M, self.gravity)

\* the lowest-point estimate position.y - _r * sin(angle.x)
LowestEstimate(self, stone) ==
    LET r == Sqrt(self.stone.d_max)
    IN  stone.position.y - Mul(r, Sin(stone.angle.x))

\* the first test of the Bouncing arm
LeavesWater(self, stone) ==
    /\ LowestEstimate(self, stone) > self.water_level
    /\ stone.velocity.y > 0

\* the second test of the Bouncing arm
SinkTest(self, stone) ==
    LET vertical_force == compute_vertical_force(self, stone)
        velocity_mag == length(stone.velocity)
    IN  stone.position.y < -Dec(1, 10) \/ stone.velocity.x < Dec(2, 10)

\* update_phase with a Sinking arm that lets the body resurface
update_phase_resurface(self, stone) ==
    IF self.phase = "Flying"
    THEN IF LowestEstimate(self, stone) <= self.water_level
         THEN [self EXCEPT !.phase = "Bouncing"]
         ELSE self
    ELSE IF LeavesWater(self, stone)
         THEN [self EXCEPT !.phase = "Flying"]
         ELSE IF self.phase = "Bouncing" /\ SinkTest(self, stone)
              THEN [self EXCEPT !.phase = "Sinking"]
              ELSE self

\* update_phase with a Flying arm that falls through to the sinking test
update_phase_fallthrough(self, stone) ==
    IF self.phase = "Flying" /\ LowestEstimate(self, stone) > self.water_level
    THEN self
    ELSE IF self.phase \in {"Flying", "Bouncing"}
    THEN IF self.phase = "Bouncing" /\ LeavesWater(self, stone)
         THEN [self EXCEPT !.phase = "Flying"]
         ELSE IF SinkTest(self, stone)
              THEN [self EXCEPT !.phase = "Sinking"]
              ELSE [self EXCEPT !.phase = "Bouncing"]
    ELSE self

\* update_phase with the two tests of the Bouncing arm in the other order
update_phase_sink_first(self, stone) ==
    IF self.phase = "Flying"
    THEN IF LowestEstimate(self, stone) <= self.water_level
         THEN [self EXCEPT !.phase = "Bouncing"]
         ELSE self
    ELSE IF self.phase = "Bouncing"
    THEN IF SinkTest(self, stone)
         THEN [self EXCEPT !.phase = "Sinking"]
         ELSE IF LeavesWater(self, stone)
              THEN [self EXCEPT !.phase = "Flying"]
              ELSE self
    ELSE self

update_phase(self, stone) ==
    IF self.phase = "Flying"
    THEN IF LowestEstimate(self, stone) <= self.water_level
         THEN [self EXCEPT !.phase = "Bouncing"]
         ELSE self
    ELSE IF self.phase = "Bouncing"
    THEN IF LeavesWater(self, stone)
         THEN [self EXCEPT !.phase = "Flying"]
         ELSE IF SinkTest(self, stone)
              THEN [self EXCEPT !.phase = "Sinking"]
              ELSE self
    ELSE self

\* update_submerged_area that stores the polygon and leaves Sim as it was
update_submerged_area_polygon_only(self, stone_state) ==
    Let(outline_to_world(self, stone_state), LAMBDA outline_world :
    Let(clip_polygon_below_line(outline_world, self.water_level), LAMBDA clipped :
        [self EXCEPT !.current_submerged_polygon = clipped]))

update_submerged_area(self, stone_state) ==
    Let(outline_to_world(self, stone_state), LAMBDA outline_world :
    Let(clip_polygon_below_line(outline_world, self.water_level), LAMBDA clipped :
        [self EXCEPT !.current_submerged_polygon = clipped,
                     !.Sim = IF Len(clipped) < 3 THEN 0 ELSE polygon_area(clipped)]))

-----------------------------------------------------------------------------
(* physics/derivative.rs: the linear state space and the derivatives *)

StoneInfo_add(a, b) ==
    StoneInfo(VAdd(a.position, b.position), VAdd(a.velocity, b.velocity),
              VAdd(a.angle, b.angle), VAdd(a.angle_velocity, b.angle_velocity))

StoneInfo_scale(a, scalar) ==
    StoneInfo(VScale(a.position, scalar), VScale(a.velocity, scalar),
              VScale(a.angle, scalar), VScale(a.angle_velocity, scalar))

\* free fall with the cached submerged area acting as a lift
deriv_flying_lifted(self, t, stone) ==
    StoneInfo(stone.velocity, Vec2(0, self.Sim - self.gravity),
              stone.angle_velocity, Vec2(0, 0))

\* flight without gravity
deriv_flying_weightless(self, t, stone) ==
    StoneInfo(stone.velocity, Vec2(0, 0), stone.angle_velocity, Vec2(0, 0))

deriv_flying(self, t, stone) ==
    StoneInfo(stone.velocity, Vec2(0, -self.gravity),
              stone.angle_velocity, Vec2(0, 0))

\* calculate_instant_submerged answering from the cache of the driver loop
calculate_instant_submerged_cached(self, stone) ==
    [sim |-> self.Sim, clipped |-> self.current_submerged_polygon]

\* the pair (sim, clipped) as a record
calculate_instant_submerged(self, stone) ==
    Let(outline_to_world(self, stone), LAMBDA outline_world :
    Let(clip_polygon_below_line(outline_world, self.water_level), LAMBDA clipped :
    Let(IF Len(clipped) < 3 THEN 0 ELSE polygon_area(clipped), LAMBDA sim :
        [sim |-> sim, clipped |-> clipped])))

compute_hydro_force(self, stone, sim) ==
    Let(stone.velocity, LAMBDA velocity :
    Let(length_squared(velocity), LAMBDA speed_sq :
        IF sim <= 0 THEN Vec2(0, 0)
        ELSE
    Let(IF speed_sq > 0 THEN Sqrt(speed_sq) ELSE 0, LAMBDA speed :
    Let(IF speed > 0 THEN VScale(velocity, Div(Scale, speed)) ELSE Vec2(0, 0),
        LAMBDA dir_v :
    Let(Mul(Mul(Dec(5, 10), self.rho), sim), LAMBDA half_rho_sim :
    Let(Vec2(-dir_v.y, dir_v.x), LAMBDA dir_lift0 :
        LET f_drag_mag == Mul(Mul(half_rho_sim, self.Cf), speed_sq)
            f_drag == VScale(dir_v, -f_drag_mag)
            dir_lift == IF dir_lift0.y < 0 THEN VScale(dir_lift0, -Scale)
                                           ELSE dir_lift0
            f_lift_mag == Mul(Mul(half_rho_sim, self.Cl), speed_sq)
            f_lift == VScale(dir_lift, f_lift_mag)
            vy == velocity.y
            damping_quad == Dec(20, 1)
            damping_lin == Dec(10, 1)
            damp_mag == Mul(half_rho_sim, Mul(damping_quad, Abs(vy)) + damping_lin)
            f_vertical_damp == Vec2(0, Mul(-damp_mag, vy))
            perimeter == Mul(Sqrt(sim), Dec(4, 1))
            tension_coeff == Dec(8, 1)
            f_suction_y == IF vy > 0 THEN Mul(-tension_coeff, perimeter) ELSE 0
            f_suction == Vec2(0, f_suction_y)
            wave_damping_coeff == Dec(15, 1)
            f_wave_radiation == Vec2(0, Mul(Mul(-wave_damping_coeff, sim), vy))
            horizontal_resist_coeff == Dec(2, 1)
            f_horizontal_resist ==
                Vec2(Mul(Mul(Mul(Mul(-Dec(5, 10), self.rho), sim),
                             horizontal_resist_coeff), velocity.x), 0)
        IN  VAdd(VAdd(VAdd(VAdd(VAdd(f_drag, f_lift), f_vertical_damp),
                           f_suction), f_wave_radiation), f_horizontal_resist)))))))

\* the lever arm without the limit
lever_arm_unlimited(stone, clipped) ==
    VSub(pressure_center(clipped), stone.position)

\* compute_angular_acceleration: r = force_point - stone.position, pulled
\* back to length max_arm when it is longer
lever_arm(stone, clipped) ==
    Let(pressure_center(clipped), LAMBDA force_point :
    Let(VSub(force_point, stone.position), LAMBDA r0 :
    Let(Dec(2, 10), LAMBDA max_arm :
        IF length_squared(r0) > Mul(max_arm, max_arm)
        THEN VScale(normalize(r0), max_arm) ELSE r0)))

compute_angular_acceleration(self, stone, sim, clipped, f_hydro) ==
    LET spin_damping ==
            Mul(Mul(-self.beta, stone.angle_velocity.y), stone.angle_velocity.y)
    IN  IF sim <= 0 THEN Vec2(0, spin_damping)
        ELSE
        Let(lever_arm(stone, clipped), LAMBDA r :
            LET torque == Mul(r.x, f_hydro.y) - Mul(r.y, f_hydro.x)
                pitch_damping_coeff == Dec(5, 1)
                pitch_damping_torque ==
                    Mul(Mul(Mul(Mul(-Dec(5, 10), self.rho), sim), pitch_damping_coeff),
                        stone.angle_velocity.x)
                total_torque_x == torque + pitch_damping_torque
                inertia == IF self.stone.inertia_tensor_x > 0
                           THEN self.stone.inertia_tensor_x ELSE Dec(1, 10)
                pitch_acc == Div(total_torque_x, inertia)
                max_acc == Dec(500, 1)
            IN  Vec2(Clamp(pitch_acc, -max_acc, max_acc), spin_damping))

deriv_bouncing(self, t, stone) ==
    Let(calculate_instant_submerged(self, stone), LAMBDA inst :
    Let(inst.sim, LAMBDA sim :
    Let(inst.clipped, LAMBDA clipped :
    Let(compute_hydro_force(self, stone, sim), LAMBDA f_hydro :
        LET f_gravity == Vec2(0, Mul(self.M, self.gravity))
            f_total == VAdd(f_hydro, f_gravity)
            estimated_thickness == Dec(2, 100)
            added_mass == Mul(Mul(Mul(self.rho, sim), estimated_thickness), Dec(5, 1))
            effective_mass == self.M + added_mass
            acceleration == VScale(f_total, Div(Scale, effective_mass))
            angular_acc == compute_angular_acceleration(self, stone, sim, clipped, f_hydro)
        IN  StoneInfo(stone.velocity, acceleration, stone.angle_velocity, angular_acc)))))

deriv_sinking(self, t, stone) ==
    StoneInfo(stone.velocity,
              Vec2(Mul(-Dec(10, 1), stone.velocity.x), -self.gravity),
              Vec2(0, 0), Vec2(0, 0))

derivatives(self, t, stone) ==
    IF self.phase = "Flying" THEN deriv_flying(self, t, stone)
    ELSE IF self.phase = "Bouncing" THEN deriv_bouncing(self, t, stone)
    ELSE deriv_sinking(self, t, stone)

-----------------------------------------------------------------------------
(* solver2.rs: RungeKuttaSolver::step over the StoneInfo state space *)

RungeKuttaSolver_new(t0, y) == [t |-> t0, state |-> y]

\* the four sub-stage states and slopes of one step from (t, y)
Stages(sys, t, y, h) ==
    Let(derivatives(sys, t, y), LAMBDA k1 :
    Let(StoneInfo_add(y, StoneInfo_scale(k1, Mul(Dec(5, 10), h))), LAMBDA k2_state :
    Let(derivatives(sys, t + Mul(Dec(5, 10), h), k2_state), LAMBDA k2 :
    Let(StoneInfo_add(y, StoneInfo_scale(k2, Mul(Dec(5, 10), h))), LAMBDA k3_state :
    Let(derivatives(sys, t + Mul(Dec(5, 10), h), k3_state), LAMBDA k3 :
    Let(StoneInfo_add(y, StoneInfo_scale(k3, h)), LAMBDA k4_state :
    Let(derivatives(sys, t + h, k4_state), LAMBDA k4 :
        [at |-> <<[t |-> t, y |-> y],
                  [t |-> t + Mul(Dec(5, 10), h), y |-> k2_state],
                  [t |-> t + Mul(Dec(5, 10), h), y |-> k3_state],
                  [t |-> t + h, y |-> k4_state]>>,
         k1 |-> k1, k2 |-> k2, k3 |-> k3, k4 |-> k4])))))))

\* the update with the four slopes weighted equally
Combine_unweighted(self, k, h) ==
    LET delta == StoneInfo_scale(
                     StoneInfo_add(StoneInfo_add(StoneInfo_add(k.k1, k.k2), k.k3), k.k4),
                     Div(h, Dec(6, 1)))
    IN  [t |-> self.t + h, state |-> StoneInfo_add(self.state, delta)]

\* the weighted sum and the update of self.state and self.t
Combine(self, k, h) ==
    LET delta == StoneInfo_scale(
                     StoneInfo_add(
                         StoneInfo_add(
                             StoneInfo_add(k.k1, StoneInfo_scale(k.k2, Dec(2, 1))),
                             StoneInfo_scale(k.k3, Dec(2, 1))),
                         k.k4),
                     Div(h, Dec(6, 1)))
    IN  [t |-> self.t + h, state |-> StoneInfo_add(self.state, delta)]

\* the solver after step(system, h)
step(self, sys, h) == Combine(self, Stages(sys, self.t, self.state, h), h)


-----------------------------------------------------------------------------
(* Inputs.  stone_phy.rs: StoneProperties of two blueprints, in the          *)
(* centre-of-mass frame: a 0.4 x 0.1 plate of thickness 0.05 and a triangle *)
(* of base 0.4, height 0.3 and thickness 0.02 (density 2700).               *)

Plate ==
    [n |-> 40000, mass |-> Dec(54, 10),
     inertia_tensor_x |-> Dec(72, 1000), inertia_tensor_y |-> Dec(77, 1000),
     outline_com |-> <<Vec2(-200, -50), Vec2(200, -50), Vec2(200, 50), Vec2(-200, 50)>>,
     collision_mesh_com |-> <<>>, d_max |-> Dec(43, 1000)]

Triangle ==
    [n |-> 40000, mass |-> Dec(324, 100),
     inertia_tensor_x |-> Dec(22, 1000), inertia_tensor_y |-> Dec(38, 1000),
     outline_com |-> <<Vec2(0, 200), Vec2(-200, -100), Vec2(200, -100)>>,
     collision_mesh_com |-> <<>>, d_max |-> Dec(50, 1000)]

Stones == {Plate, Triangle}

\* main.rs passes 9.81
Gravity == Dec(981, 100)

\* the fixed steps simulate is called with
Dts == {Dec(12, 1000)}

\* initial states handed to RungeKuttaSolver::new
InitStates ==
    {StoneInfo(Vec2(0, py), v, Vec2(pitch, 0), w) :
        py \in {155, 300},
        v \in {Vec2(0, 0), Vec2(5000, -1000), Vec2(3000, 0)},
        pitch \in {0, 200},
        w \in {Vec2(0, 0), Vec2(0, 5000)}}

\* max_steps of simulate
MaxSteps == 60

-----------------------------------------------------------------------------
(* physics/simulation.rs: simulate, one action per statement of the loop *)

Init ==
    /\ \E st \in Stones : system = CustomSettings_new(Gravity, st)
    /\ y0 \in InitStates
    /\ solver = RungeKuttaSolver_new(0, y0)
    /\ dt \in Dts
    /\ pc = "record"
    /\ steps = 0
    /\ evals = <<>>
    /\ trajectory = <<>>
    /\ prev_phase = "Flying"
    /\ arg = <<>>
    /\ ret = <<>>

\* (1) trajectory.push(Stamp { state, t })
Record ==
    /\ pc = "record"
    /\ steps < MaxSteps
    /\ trajectory' = Append(trajectory, [state |-> solver.state, t |-> solver.t])
    /\ steps' = steps + 1
    /\ pc' = "area"
    /\ UNCHANGED <<system, solver, dt, evals, y0, prev_phase, arg, ret>>

\* the for loop runs out
LoopEnd ==
    /\ pc = "record"
    /\ steps >= MaxSteps
    /\ pc' = "done"
    /\ UNCHANGED <<system, solver, dt, steps, evals, y0, trajectory, prev_phase, arg, ret>>

\* step (2) of the loop calling update_submerged_area in every phase
Area_always ==
    /\ pc = "area"
    /\ system' = update_submerged_area(system, solver.state)
    /\ prev_phase' = system.phase
    /\ pc' = "phase"
    /\ UNCHANGED <<solver, dt, steps, evals, y0, trajectory, arg, ret>>

\* (2) if system.phase == Bouncing { update_submerged_area(&solver.state) }
Area ==
    /\ pc = "area"
    /\ system' = IF system.phase = "Bouncing"
                 THEN update_submerged_area(system, solver.state)
                 ELSE system
    /\ prev_phase' = system.phase
    /\ pc' = "phase"
    /\ UNCHANGED <<solver, dt, steps, evals, y0, trajectory, arg, ret>>

\* (3) system.update_phase(&solver.state)
UpdatePhase ==
    /\ pc = "phase"
    /\ system' = update_phase(system, solver.state)
    /\ prev_phase' = system.phase
    /\ arg' = solver.state
    /\ pc' = "check"
    /\ UNCHANGED <<solver, dt, steps, evals, y0, trajectory, ret>>

\* the test of the phase without the break
Check_no_break ==
    /\ pc = "check"
    /\ pc' = "step"
    /\ UNCHANGED <<system, solver, dt, steps, evals, y0, trajectory, prev_phase, arg, ret>>

\* if system.phase == Sinking { break }
Check ==
    /\ pc = "check"
    /\ pc' = IF system.phase = "Sinking" THEN "done" ELSE "step"
    /\ UNCHANGED <<system, solver, dt, steps, evals, y0, trajectory, prev_phase, arg, ret>>

\* (4) solver.step(system, dt)
Step ==
    /\ pc = "step"
    /\ \E k \in {Stages(system, solver.t, solver.state, dt)} :
          /\ solver' = Combine(solver, k, dt)
          /\ evals' = k.at
    /\ prev_phase' = system.phase
    /\ pc' = "record"
    /\ UNCHANGED <<system, dt, steps, y0, trajectory, arg, ret>>

Next == Record \/ LoopEnd \/ Area \/ UpdatePhase \/ Check \/ Step

Spec == Init /\ [][Next]_vars

-----------------------------------------------------------------------------
(* The public operations called in any order on any stone state:            *)
(* update_phase, update_submerged_area and RungeKuttaSolver::step.          *)

\* stone states handed to the operations: high flight, first touch, leaving
\* fast, leaving slowly, deep and fast, shallow and slow, deep and rising,
\* level and at rest just above the line
ApiStates ==
    {StoneInfo(Vec2(0, 300), Vec2(5000, -1000), Vec2(200, 0), Vec2(0, 5000)),
     StoneInfo(Vec2(0, 20), Vec2(5000, -1000), Vec2(200, 0), Vec2(0, 5000)),
     StoneInfo(Vec2(0, 100), Vec2(4000, 800), Vec2(200, 0), Vec2(0, 5000)),
     StoneInfo(Vec2(0, 100), Vec2(100, 800), Vec2(200, 0), Vec2(0, 0)),
     StoneInfo(Vec2(0, -200), Vec2(5000, -1000), Vec2(200, 0), Vec2(0, 5000)),
     StoneInfo(Vec2(0, -20), Vec2(100, -100), Vec2(0, 0), Vec2(0, 0)),
     StoneInfo(Vec2(0, -200), Vec2(3000, 500), Vec2(200, 0), Vec2(0, 0)),
     StoneInfo(Vec2(0, 30), Vec2(0, 0), Vec2(0, 0), Vec2(0, 0))}

\* number of step calls in a sequence
MaxApiSteps == 1

InitApi ==
    /\ \E st \in Stones : system = CustomSettings_new(Gravity, st)
    /\ y0 \in {s \in ApiStates : s.position.y = 20}
    /\ solver = RungeKuttaSolver_new(0, y0)
    /\ dt \in Dts
    /\ pc = "new"
    /\ steps = 0
    /\ evals = <<>>
    /\ trajectory = <<>>
    /\ prev_phase = "Flying"
    /\ arg = y0
    /\ ret = <<>>

\* system.update_phase(&stone)
ApiUpdatePhase ==
    /\ \E stone \in ApiStates \cup {solver.state} :
          /\ system' = update_phase(system, stone)
          /\ arg' = stone
    /\ prev_phase' = system.phase
    /\ pc' = "update_phase"
    /\ UNCHANGED <<solver, dt, steps, evals, y0, trajectory, ret>>

\* system.update_submerged_area(&stone)
ApiUpdateSubmergedArea ==
    /\ \E stone \in ApiStates \cup {solver.state} :
          system' = update_submerged_area(system, stone)
    /\ prev_phase' = system.phase
    /\ pc' = "update_submerged_area"
    /\ UNCHANGED <<solver, dt, steps, evals, y0, trajectory, arg, ret>>

\* a step that stores the submerged area of its state in the system
ApiStep_caching ==
    /\ steps < MaxApiSteps
    /\ \E k \in {Stages(system, solver.t, solver.state, dt)} :
          /\ solver' = Combine(solver, k, dt)
          /\ evals' = k.at
    /\ system' = update_submerged_area(system, solver.state)
    /\ steps' = steps + 1
    /\ prev_phase' = system.phase
    /\ pc' = "step"
    /\ UNCHANGED <<dt, y0, trajectory, arg, ret>>

\* solver.step(&system, dt)
ApiStep ==
    /\ steps < MaxApiSteps
    /\ \E k \in {Stages(system, solver.t, solver.state, dt)} :
          /\ solver' = Combine(solver, k, dt)
          /\ evals' = k.at
    /\ steps' = steps + 1
    /\ prev_phase' = system.phase
    /\ pc' = "step"
    /\ UNCHANGED <<system, dt, y0, trajectory, arg, ret>>

NextApi == ApiUpdatePhase \/ ApiUpdateSubmergedArea \/ ApiStep

SpecApi == InitApi /\ [][NextApi]_vars

-----------------------------------------------------------------------------
(* Properties of the phase state machine (SpecApi) *)

\* C1: once the phase is Sinking, no update_phase, update_submerged_area or
\* step call, on any stone state, changes it again.
C1_SinkingIsTerminal ==
    [][system.phase = "Sinking" => system'.phase = "Sinking"]_vars

\* update_phase ran on a Sinking system with a state that satisfies the
\* leave-water test, after a step was taken
C1_Witness ==
    /\ pc = "update_phase"
    /\ prev_phase = "Sinking"
    /\ system.phase = "Sinking"
    /\ arg.position.y - Mul(Sqrt(system.stone.d_max), Sin(arg.angle.x)) > system.water_level
    /\ arg.velocity.y > 0
    /\ steps > 0

\* C2: the phase changes only in update_phase and only along Flying->Bouncing,
\* Bouncing->Flying or Bouncing->Sinking; Flying is never followed by Sinking.
C2_AllowedTransitions ==
    [][system'.phase # system.phase =>
          /\ pc' = "update_phase"
          /\ <<system.phase, system'.phase>> \in
                {<<"Flying", "Bouncing">>, <<"Bouncing", "Flying">>,
                 <<"Bouncing", "Sinking">>}]_vars

\* a Flying body evaluated deep under water becomes Bouncing, not Sinking
C2_Witness ==
    /\ pc = "update_phase"
    /\ prev_phase = "Flying"
    /\ system.phase = "Bouncing"
    /\ arg.position.y < -Dec(1, 10)

\* C3: a Bouncing system evaluated on a state with
\* position.y - sqrt(d_max)*sin(angle.x) > water_level and velocity.y > 0 is
\* Flying after that same update_phase call, whatever position.y and
\* velocity.x are.
C3_LeaveWaterFirst ==
    [][(/\ pc' = "update_phase"
        /\ system.phase = "Bouncing"
        /\ arg'.position.y - Mul(Sqrt(system.stone.d_max), Sin(arg'.angle.x))
             > system.water_level
        /\ arg'.velocity.y > 0)
       => system'.phase = "Flying"]_vars

\* the leaving state is also one the sinking test would accept
C3_Witness ==
    /\ pc = "update_phase"
    /\ prev_phase = "Bouncing"
    /\ system.phase = "Flying"
    /\ arg.velocity.y > 0
    /\ arg.velocity.x < Dec(2, 10)

\* C5: a Bouncing system evaluated on a state that does not leave the water
\* becomes Sinking exactly when compute_vertical_force is negative or the
\* speed is below the threshold (0.2), and stays Bouncing otherwise.
C5_SinkIffForceOrSpeed ==
    (/\ pc = "update_phase"
     /\ prev_phase = "Bouncing"
     /\ ~LeavesWater(system, arg))
    => (system.phase = "Sinking"
          <=> \/ compute_vertical_force(system, arg) < 0
              \/ length(arg.velocity) < Dec(2, 10))

-----------------------------------------------------------------------------
(* Properties of the derivative and of the integrator (SpecApi) *)

C7_RK4Step ==
    [][pc' = "step" =>
        LET t == solver.t
            y == solver.state
            half == Mul(Dec(5, 10), dt)
            k1 == derivatives(system, t, y)
            y2 == StoneInfo_add(y, StoneInfo_scale(k1, half))
            k2 == derivatives(system, t + half, y2)
            y3 == StoneInfo_add(y, StoneInfo_scale(k2, half))
            k3 == derivatives(system, t + half, y3)
            y4 == StoneInfo_add(y, StoneInfo_scale(k3, dt))
            k4 == derivatives(system, t + dt, y4)
            sum == StoneInfo_add(
                       StoneInfo_add(
                           StoneInfo_add(k1, StoneInfo_scale(k2, 2 * Scale)),
                           StoneInfo_scale(k3, 2 * Scale)),
                       k4)
        IN  /\ evals' = <<[t |-> t, y |-> y], [t |-> t + half, y |-> y2],
                          [t |-> t + half, y |-> y3], [t |-> t + dt, y |-> y4]>>
            /\ solver'.state = StoneInfo_add(y, StoneInfo_scale(sum, Div(dt, 6 * Scale)))
            /\ solver'.t = t + dt]_vars

\* a step was taken in the water, where the four slopes differ
C7_Witness ==
    /\ pc = "step"
    /\ system.phase = "Bouncing"
    /\ Len(evals) = 4
    /\ solver.t = dt
    /\ solver.state.velocity # y0.velocity

-----------------------------------------------------------------------------
(* Properties of the driver loop (Spec) *)

\* the lowest vertex of the world-space outline
RECURSIVE MinYFrom(_, _)
MinYFrom(poly, i) ==
    IF i >= Len(poly) THEN poly[i].y
    ELSE Min(poly[i].y, MinYFrom(poly, i + 1))

\* C4: for a body that starts Flying above the water with zero velocity (at
\* rest, not spinning), the phase after update_phase is never Flying while a
\* vertex of outline_to_world lies at or below water_level.
C4_BouncingAtFirstTouch ==
    (/\ pc = "check"
     /\ y0.velocity = Vec2(0, 0)
     /\ y0.angle_velocity = Vec2(0, 0)
     /\ MinYFrom(outline_to_world(system, y0), 1) > system.water_level
     /\ MinYFrom(outline_to_world(system, solver.state), 1) <= system.water_level)
    => system.phase # "Flying"

-----------------------------------------------------------------------------
(* The geometry functions on bounded inputs *)

\* longest vertex list handed to pressure_center and to the clip
MaxPolyLen == 4

\* vertex lists with zero-area and positive-area members
PCPoints == {Vec2(0, 0), Vec2(1000, 0), Vec2(1000, 1000), Vec2(2000, 2000)}
PCInputs == UNION {[1..n -> PCPoints] : n \in 1..MaxPolyLen}

\* a state of the simulation that the pure functions leave alone
Idle(input) ==
    /\ system = CustomSettings_new(Gravity, Plate)
    /\ y0 = StoneInfo(Vec2(0, 300), Vec2(0, 0), Vec2(0, 0), Vec2(0, 0))
    /\ solver = RungeKuttaSolver_new(0, y0)
    /\ dt \in Dts
    /\ pc = "input"
    /\ steps = 0
    /\ evals = <<>>
    /\ trajectory = <<>>
    /\ prev_phase = "Flying"
    /\ arg = input
    /\ ret = <<>>

InitPC == \E input \in PCInputs : Idle(input)

\* pressure_center(&clipped)
CallPressureCenter ==
    /\ pc = "input"
    /\ ret' = pressure_center(arg)
    /\ pc' = "pressure_center"
    /\ UNCHANGED <<system, solver, dt, steps, evals, y0, trajectory, prev_phase, arg>>

NextPC == CallPressureCenter

SpecPC == InitPC /\ [][NextPC]_vars

\* polygons on a grid whose edges meet the lines at grid-exact points
ClipPoints ==
    {Vec2(0, 0), Vec2(2000, 0), Vec2(2000, 2000), Vec2(0, 2000), Vec2(1000, 1000)}
ClipLines == {-Dec(1, 1), Dec(5, 10), Dec(1, 1), Dec(3, 1)}
ClipInputs ==
    {[poly |-> P, y0 |-> a, y1 |-> b] :
        P \in UNION {[1..n -> ClipPoints] : n \in 0..MaxPolyLen},
        a \in ClipLines, b \in ClipLines}

InitClip == \E input \in {c \in ClipInputs : c.y1 >= c.y0} : Idle(input)

\* clip_polygon_below_line(&P, y0)
ClipFirst ==
    /\ pc = "input"
    /\ ret' = <<clip_polygon_below_line(arg.poly, arg.y0)>>
    /\ pc' = "clip1"
    /\ UNCHANGED <<system, solver, dt, steps, evals, y0, trajectory, prev_phase, arg>>

\* clip_polygon_below_line(&first, y1)
ClipSecond ==
    /\ pc = "clip1"
    /\ ret' = Append(ret, clip_polygon_below_line(ret[1], arg.y1))
    /\ pc' = "clip2"
    /\ UNCHANGED <<system, solver, dt, steps, evals, y0, trajectory, prev_phase, arg>>

NextClip == ClipFirst \/ ClipSecond

SpecClip == InitClip /\ [][NextClip]_vars

-----------------------------------------------------------------------------
(* Properties of pressure_center (SpecPC) *)

\* r is the arithmetic mean of the vertices, to the nearest representable value
IsMean(r, poly) ==
    /\ 2 * Abs(r.x * Len(poly) - SumX(poly, 1)) <= Len(poly)
    /\ 2 * Abs(r.y * Len(poly) - SumY(poly, 1)) <= Len(poly)

\* C8 as stated: for a vertex list of any length >= 1 with area below 1e-9,
\* pressure_center returns the arithmetic mean of the vertices.
C8_MeanForAnyLength ==
    (pc = "pressure_center" /\ Len(arg) >= 1 /\ polygon_area(arg) <= 0)
    => IsMean(ret, arg)

\* C8 amended: for a list of at least 3 vertices with area below 1e-9,
\* pressure_center returns the arithmetic mean of the vertices; for a list of
\* fewer than 3 vertices it returns (0, 0).
C8_MeanForDegeneratePolygon ==
    pc = "pressure_center" =>
        IF Len(arg) < 3 THEN ret = Vec2(0, 0)
        ELSE polygon_area(arg) <= 0 => IsMean(ret, arg)

\* three distinct collinear vertices away from the origin
C8_Witness ==
    /\ pc = "pressure_center"
    /\ Len(arg) = 3
    /\ polygon_area(arg) <= 0
    /\ arg[1] # arg[2] /\ arg[2] # arg[3] /\ arg[1] # arg[3]
    /\ ret = Vec2(Dec(1, 1), Dec(1, 1))

-----------------------------------------------------------------------------
(* Properties of clip_polygon_below_line (SpecClip) *)

\* the list started one vertex later: the same closed polygon
RotateLeft(poly) == IF Len(poly) = 0 THEN poly ELSE Tail(poly) \o <<Head(poly)>>

\* the same closed polygon, started at any vertex
SameCycle(a, b) ==
    /\ Len(a) = Len(b)
    /\ \/ Len(a) = 0
       \/ \E k \in 0..(Len(a) - 1) :
             \A i \in 1..Len(a) : b[i] = a[((i - 1 + k) % Len(a)) + 1]

\* C9 as stated: for y1 >= y0, clip(clip(P, y0), y1) == clip(P, y0).
C9_SecondClipIsSameList ==
    pc = "clip2" => ret[2] = ret[1]

\* C9 amended: for y1 > y0 the second clip returns the vertex list of
\* clip(P, y0) rotated left by one position; for y1 = y0 it returns the same
\* closed polygon (the same vertices in the same cyclic order).
C9_SecondClipIsSamePolygon ==
    pc = "clip2" =>
        IF arg.y1 > arg.y0 THEN ret[2] = RotateLeft(ret[1])
        ELSE SameCycle(ret[1], ret[2])

\* the first clip cut the polygon and the second used the same line
C9_Witness ==
    /\ pc = "clip2"
    /\ arg.y1 = arg.y0
    /\ Len(ret[1]) >= 3
    /\ \E i \in 1..Len(arg.poly) : arg.poly[i].y > arg.y0
    /\ \E i \in 1..Len(ret[1]) : ret[1][i].y = arg.y0
    /\ ret[2] # ret[1]

RECURSIVE MaxYFrom(_, _)
MaxYFrom(poly, i) ==
    IF i >= Len(poly) THEN poly[i].y
    ELSE Max(poly[i].y, MaxYFrom(poly, i + 1))

\* the turn at vertex i
Turn(poly, i) ==
    LET n == Len(poly)
        a == poly[i]
        b == poly[(i % n) + 1]
        c == poly[((i + 1) % n) + 1]
    IN  (b.x - a.x) * (c.y - b.y) - (b.y - a.y) * (c.x - b.x)

\* strictly convex: every turn has the same sign
IsConvex(poly) ==
    /\ Len(poly) >= 3
    /\ \/ \A i \in 1..Len(poly) : Turn(poly, i) > 0
       \/ \A i \in 1..Len(poly) : Turn(poly, i) < 0

\* C10 as stated: for a convex polygon, a line above its maximum y returns
\* the full polygon unchanged and a line below its minimum y returns fewer
\* than 3 points.
C10_IdentityClip ==
    (pc = "clip1" /\ IsConvex(arg.poly)) =>
        /\ arg.y0 > MaxYFrom(arg.poly, 1) => ret[1] = arg.poly
        /\ arg.y0 < MinYFrom(arg.poly, 1) => Len(ret[1]) < 3

\* C10 amended: for a convex polygon, a line above its maximum y returns all
\* its vertices in the same cyclic order starting from the second one (the
\* list rotated left by one), and a line below its minimum y returns fewer
\* than 3 points.
C10_FullPolygonRotated ==
    (pc = "clip1" /\ IsConvex(arg.poly)) =>
        /\ arg.y0 > MaxYFrom(arg.poly, 1) => ret[1] = RotateLeft(arg.poly)
        /\ arg.y0 < MinYFrom(arg.poly, 1) => Len(ret[1]) < 3

\* a convex quadrilateral clipped by a line above it
C10_Witness ==
    /\ pc = "clip1"
    /\ IsConvex(arg.poly)
    /\ Len(arg.poly) = 4
    /\ arg.y0 > MaxYFrom(arg.poly, 1)
    /\ Len(ret[1]) = 4

\* ---------------------------------------------------------------------------
\* The two area functions applied to one vertex list
\* ---------------------------------------------------------------------------

\* vertices with fractional coordinates, in no particular orientation
AreaPoints ==
    {Vec2(0, 0), Vec2(1500, 0), Vec2(1000, 1250), Vec2(-500, 750), Vec2(250, -1000)}
AreaInputs == UNION {[1..n -> AreaPoints] : n \in 0..MaxPolyLen}

InitArea == \E input \in AreaInputs : Idle(input)

\* polygon_area(&poly) and calculate_polygon_area(&points) on the same list
CallPolygonArea ==
    /\ pc = "input"
    /\ ret' = [sim |-> polygon_area(arg), stone |-> calculate_polygon_area(arg)]
    /\ pc' = "polygon_area"
    /\ UNCHANGED <<system, solver, dt, steps, evals, y0, trajectory, prev_phase, arg>>

NextArea == CallPolygonArea

SpecArea == InitArea /\ [][NextArea]_vars

Reversed(poly) == [i \in 1..Len(poly) |-> poly[Len(poly) + 1 - i]]

RECURSIVE RotateBy(_, _)
RotateBy(poly, k) == IF k = 0 THEN poly ELSE RotateBy(RotateLeft(poly), k - 1)

\* C11: for a vertex list of at least 3 points both area functions return the
\* same non-negative value for the list, for its reversal and for every cyclic
\* rotation of it; for fewer than 3 points both return 0.
C11_AreaOrientationFree ==
    pc = "polygon_area" =>
        /\ ret.sim >= 0
        /\ ret.stone >= 0
        /\ Len(arg) < 3 => (ret.sim = 0 /\ ret.stone = 0)
        /\ ret.sim = polygon_area(Reversed(arg))
        /\ ret.stone = calculate_polygon_area(Reversed(arg))
        /\ \A k \in 1..Len(arg) :
              /\ ret.sim = polygon_area(RotateBy(arg, k))
              /\ ret.stone = calculate_polygon_area(RotateBy(arg, k))

\* a clockwise quadrilateral (negative shoelace sum) with a positive area
C11_Witness ==
    /\ pc = "polygon_area"
    /\ Len(arg) = 4
    /\ SumCross(arg, 1) < 0
    /\ ret.sim > 0
    /\ ret.stone = ret.sim

-----------------------------------------------------------------------------
(* The Flying derivative (SpecApi) *)

\* the stone moved to another place and turned to another angle
Displaced(stone, other) ==
    StoneInfo(other.position, stone.velocity, other.angle, stone.angle_velocity)

\* C20: while the phase is Flying the derivative of a state is exactly
\* (position: velocity, velocity: (0, -gravity), angle: angle_velocity,
\* angle_velocity: (0, 0)), and it is the same at every other position and
\* angle, for every other outline and with an empty submerged-area cache.
C20_FlyingIsFreeFall ==
    system.phase = "Flying" =>
        \A stone \in {arg, solver.state} :
            /\ derivatives(system, solver.t, stone)
                 = [position |-> stone.velocity,
                    velocity |-> Vec2(0, -system.gravity),
                    angle |-> stone.angle_velocity,
                    angle_velocity |-> Vec2(0, 0)]
            /\ \A other \in ApiStates, st \in Stones :
                  derivatives([system EXCEPT !.stone = st, !.Sim = 0,
                                             !.current_submerged_polygon = <<>>],
                              solver.t, Displaced(stone, other))
                    = derivatives(system, solver.t, stone)

\* a step taken in Flying while the cache holds a submerged polygon
C20_Witness ==
    /\ pc = "step"
    /\ system.phase = "Flying"
    /\ system.Sim > 0
    /\ Len(system.current_submerged_polygon) >= 3
    /\ solver.state.velocity # y0.velocity

-----------------------------------------------------------------------------
(* The Sinking derivative (SpecApi) *)

\* C16: while the phase is Sinking, one integration step of a state never
\* increases the magnitude of its velocity, and a state at rest has a zero
\* velocity derivative.
C16_SinkingDrivesToRest ==
    system.phase = "Sinking" =>
        \A stone \in {arg, solver.state} :
            /\ length_squared(step(RungeKuttaSolver_new(solver.t, stone),
                                   system, dt).state.velocity)
                 <= length_squared(stone.velocity)
            /\ stone.velocity = Vec2(0, 0) =>
                  derivatives(system, solver.t, stone).velocity = Vec2(0, 0)

-----------------------------------------------------------------------------
(* The divisors of the Bouncing derivative (SpecApi) *)

\* Each operator below lists, as a sequence, the divisors that one division
\* site of the code evaluates on the given input: empty where a guard or an
\* early return keeps the division from being evaluated.

\* f_total * (1.0 / effective_mass)
EffectiveMassDivisor(self, sim) ==
    <<self.M + Mul(Mul(Mul(self.rho, sim), Dec(2, 100)), Dec(5, 1))>>

\* velocity * (1.0 / speed) with the guard on the speed left out
SpeedDivisor_unguarded(stone, sim) ==
    IF sim <= 0 THEN <<>>
    ELSE <<IF length_squared(stone.velocity) > 0
           THEN Sqrt(length_squared(stone.velocity)) ELSE 0>>

\* velocity * (1.0 / speed)
SpeedDivisor(stone, sim) ==
    IF sim <= 0 THEN <<>>
    ELSE Let(IF length_squared(stone.velocity) > 0
             THEN Sqrt(length_squared(stone.velocity)) ELSE 0, LAMBDA speed :
             IF speed > 0 THEN <<speed>> ELSE <<>>)

\* pressure_center: sum / n for a degenerate polygon, else 1.0 / (6.0 * area)
AreaDivisor(sim, clipped) ==
    IF sim <= 0 \/ Len(clipped) < 3 THEN <<>>
    ELSE IF Abs(polygon_area(clipped)) <= 0 THEN <<Len(clipped) * Scale>>
    ELSE <<Mul(Dec(6, 1), polygon_area(clipped))>>

\* r.normalize(): self * (1.0 / len)
ArmDivisor(stone, sim, clipped) ==
    IF sim <= 0 THEN <<>>
    ELSE Let(VSub(pressure_center(clipped), stone.position), LAMBDA r :
             IF length_squared(r) > Mul(Dec(2, 10), Dec(2, 10))
             THEN (IF length(r) > 0 THEN <<length(r)>> ELSE <<>>)
             ELSE <<>>)

\* total_torque_x / inertia
InertiaDivisor(self, sim) ==
    IF sim <= 0 THEN <<>>
    ELSE <<IF self.stone.inertia_tensor_x > 0
           THEN self.stone.inertia_tensor_x ELSE Dec(1, 10)>>

\* intersect_with_horizontal: (y - p1.y) / (p2.y - p1.y)
IntersectDivisor(p1, p2, y) ==
    IF (p1.y - y) * (p2.y - y) > 0 THEN <<>>
    ELSE IF Abs(p1.y - p2.y) <= 0 THEN <<>>
    ELSE <<p2.y - p1.y>>

\* clip_polygon_below_line: the edges whose ends lie on different sides
RECURSIVE ClipDivisors(_, _, _)
ClipDivisors(poly, i, line_y) ==
    IF i > Len(poly) THEN <<>>
    ELSE LET cur == poly[i]
             next == poly[(i % Len(poly)) + 1]
         IN  (IF (cur.y < line_y) # (next.y < line_y)
              THEN IntersectDivisor(cur, next, line_y) ELSE <<>>)
               \o ClipDivisors(poly, i + 1, line_y)

\* every divisor that deriv_bouncing(stone) evaluates, site by site
BouncingDivisors(self, stone) ==
    Let(calculate_instant_submerged(self, stone), LAMBDA inst :
        [effective_mass |-> EffectiveMassDivisor(self, inst.sim),
         speed |-> SpeedDivisor(stone, inst.sim),
         area |-> AreaDivisor(inst.sim, inst.clipped),
         arm |-> ArmDivisor(stone, inst.sim, inst.clipped),
         inertia |-> InertiaDivisor(self, inst.sim),
         intersection |-> ClipDivisors(outline_to_world(self, stone), 1,
                                       self.water_level)])

NoZero(divisors) == \A i \in DOMAIN divisors : divisors[i] # 0

\* C17: with M > 1e-9 and rho >= 0, for every stone state no division that
\* the Bouncing derivative evaluates has a zero divisor: the effective mass,
\* the speed, the lever-arm length, 6 * area (or the vertex count), the
\* inertia and the intersection parameter's denominator.
C17_NoZeroDivisor ==
    (system.phase = "Bouncing" /\ system.M > 0) =>
        \A stone \in ApiStates \cup {arg, solver.state}, rho \in {0, system.rho} :
            Let(BouncingDivisors([system EXCEPT !.rho = rho], stone), LAMBDA d :
                /\ NoZero(d.effective_mass)
                /\ NoZero(d.speed)
                /\ NoZero(d.area)
                /\ NoZero(d.arm)
                /\ NoZero(d.inertia)
                /\ NoZero(d.intersection))

\* a step in Bouncing from a state whose derivative divides at every site
\* but the lever arm, next to a submerged state at rest that skips the speed
C17_Witness ==
    /\ pc = "step"
    /\ system.phase = "Bouncing"
    /\ Let(BouncingDivisors(system, y0), LAMBDA d :
          /\ Len(d.effective_mass) = 1
          /\ Len(d.speed) = 1
          /\ Len(d.area) = 1
          /\ Len(d.inertia) = 1
          /\ Len(d.intersection) = 2)
    /\ \E stone \in ApiStates :
          /\ calculate_instant_submerged(system, stone).sim > 0
          /\ BouncingDivisors(system, stone).speed = <<>>

-----------------------------------------------------------------------------
(* stone_phy.rs: StoneProperties::new and its geometry helpers *)

\* the sample count handed to generate_collision_mesh; the program's constant
\* is 40000 (stone_phy.rs:6), the model samples on a coarser grid
COLLISION_MESH_POINTS == 16

DENSITY_SLATE == Dec(2700, 1)

StoneProperties_default ==
    [n |-> 0, mass |-> 0, inertia_tensor_x |-> 0, inertia_tensor_y |-> 0,
     outline_com |-> <<>>, collision_mesh_com |-> <<>>, d_max |-> 0]

\* sum of (p1.x + p2.x) * cross_product and of (p1.y + p2.y) * cross_product
\* are SumCx and SumCy; signed_area_x2 is SumCross.  centroid * (1.0 / d) is
\* centroid / d to within one rounding of f64 and is taken as the quotient,
\* so that the resolution of the stored factor does not enter the result.
calculate_centroid(polygon) ==
    Let(SumCross(polygon, 1), LAMBDA signed_area_x2 :
        IF Abs(signed_area_x2) <= 0
        THEN Let(Len(polygon) * Scale, LAMBDA n :
                 Vec2(Div(SumX(polygon, 1), n), Div(SumY(polygon, 1), n)))
        ELSE Let(Mul(Dec(3, 1), signed_area_x2), LAMBDA d :
                 Vec2(Div(SumCx(polygon, 1), d), Div(SumCy(polygon, 1), d))))

\* the four folds of find_aabb, from vertex i on
RECURSIVE MinXFrom(_, _)
MinXFrom(polygon, i) ==
    IF i = Len(polygon) THEN polygon[i].x
    ELSE Min(polygon[i].x, MinXFrom(polygon, i + 1))

RECURSIVE MaxXFrom(_, _)
MaxXFrom(polygon, i) ==
    IF i = Len(polygon) THEN polygon[i].x
    ELSE Max(polygon[i].x, MaxXFrom(polygon, i + 1))

RECURSIVE AabbMinY(_, _)
AabbMinY(polygon, i) ==
    IF i = Len(polygon) THEN polygon[i].y
    ELSE Min(polygon[i].y, AabbMinY(polygon, i + 1))

RECURSIVE AabbMaxY(_, _)
AabbMaxY(polygon, i) ==
    IF i = Len(polygon) THEN polygon[i].y
    ELSE Max(polygon[i].y, AabbMaxY(polygon, i + 1))

\* (min_corner, max_corner) of a non-empty polygon
find_aabb(polygon) ==
    [min |-> Vec2(MinXFrom(polygon, 1), AabbMinY(polygon, 1)),
     max |-> Vec2(MaxXFrom(polygon, 1), AabbMaxY(polygon, 1))]

\* the test of one edge: pi = polygon[i], pj = the vertex before it
RayIntersects(point, polygon, i) ==
    LET pi == polygon[i]
        pj == polygon[IF i = 1 THEN Len(polygon) ELSE i - 1]
    IN  /\ (pi.y > point.y) # (pj.y > point.y)
        /\ point.x < Div(Mul(pj.x - pi.x, point.y - pi.y), pj.y - pi.y) + pi.x

\* is_inside after the edges i..n, starting from is_inside
RECURSIVE RayCast(_, _, _, _)
RayCast(point, polygon, i, is_inside) ==
    IF i > Len(polygon) THEN is_inside
    ELSE RayCast(point, polygon, i + 1,
                 IF RayIntersects(point, polygon, i) THEN ~is_inside ELSE is_inside)

is_point_in_polygon(point, polygon) == RayCast(point, polygon, 1, FALSE)

\* the inner loop over the columns j.. of the row at height y
RECURSIVE MeshRow(_, _, _, _, _, _)
MeshRow(polygon, aabb, delta, y, num_cols, j) ==
    IF j >= num_cols THEN <<>>
    ELSE LET x == aabb.min.x + j * delta
         IN  (IF x > aabb.max.x THEN <<>>
              ELSE IF is_point_in_polygon(Vec2(x, y), polygon) THEN <<Vec2(x, y)>>
              ELSE <<>>)
               \o MeshRow(polygon, aabb, delta, y, num_cols, j + 1)

\* the outer loop over the rows i..
RECURSIVE MeshRows(_, _, _, _, _, _)
MeshRows(polygon, aabb, delta, num_rows, num_cols, i) ==
    IF i >= num_rows THEN <<>>
    ELSE LET y == aabb.min.y + i * delta
         IN  (IF y > aabb.max.y THEN <<>>
              ELSE MeshRow(polygon, aabb, delta, y, num_cols, 0))
               \o MeshRows(polygon, aabb, delta, num_rows, num_cols, i + 1)

\* ceil(a / b) for a >= 0, b > 0
CeilDiv(a, b) == (a + b - 1) \div b

generate_collision_mesh(polygon, num_points, area) ==
    IF Len(polygon) = 0 \/ Abs(area) <= 0 THEN <<>>
    ELSE Let(find_aabb(polygon), LAMBDA aabb :
         IF Abs(aabb.max.x - aabb.min.x) <= 0 \/ Abs(aabb.max.y - aabb.min.y) <= 0
         THEN <<>>
         ELSE Let(Sqrt(Div(area, num_points * Scale)), LAMBDA delta :
                  MeshRows(polygon, aabb, delta,
                           CeilDiv(aabb.max.y - aabb.min.y, delta) + 1,
                           CeilDiv(aabb.max.x - aabb.min.x, delta) + 1, 0)))

RECURSIVE SumXX(_, _)
SumXX(mesh_points, i) ==
    IF i > Len(mesh_points) THEN 0
    ELSE Mul(mesh_points[i].x, mesh_points[i].x) + SumXX(mesh_points, i + 1)

RECURSIVE SumRR(_, _)
SumRR(mesh_points, i) ==
    IF i > Len(mesh_points) THEN 0
    ELSE length_squared(mesh_points[i]) + SumRR(mesh_points, i + 1)

calculate_inertia_z(mesh_points, total_mass) ==
    IF Len(mesh_points) = 0 THEN 0
    ELSE Mul(Div(total_mass, Len(mesh_points) * Scale), SumXX(mesh_points, 1))

calculate_inertia_y(mesh_points, total_mass) ==
    IF Len(mesh_points) = 0 THEN 0
    ELSE Mul(Div(total_mass, Len(mesh_points) * Scale), SumRR(mesh_points, 1))

\* the d_max loop of new, from point i on with the running maximum d
RECURSIVE DMaxFrom(_, _, _)
DMaxFrom(mesh, i, d) ==
    IF i > Len(mesh) THEN d
    ELSE DMaxFrom(mesh, i + 1,
                  IF length_squared(mesh[i]) >= d THEN length_squared(mesh[i]) ELSE d)

\* the outline left in the frame of the blueprint
ShiftFrom_unshifted(points, centroid) == points

\* points.iter().map(|p| *p - centroid).collect()
ShiftFrom(points, centroid) == [i \in 1..Len(points) |-> VSub(points[i], centroid)]

\* the struct built from the shifted outline and its sample mesh
StoneProperties_build(mass, outline_com, mesh) ==
    [n |-> Len(mesh), mass |-> mass,
     inertia_tensor_x |-> calculate_inertia_z(mesh, mass),
     inertia_tensor_y |-> calculate_inertia_y(mesh, mass),
     outline_com |-> outline_com, collision_mesh_com |-> mesh,
     d_max |-> DMaxFrom(mesh, 1, 0)]

StoneProperties_new(blueprint) ==
    Let(calculate_polygon_area(blueprint.points), LAMBDA area :
        IF Abs(area) <= 0 THEN StoneProperties_default
        ELSE
    Let(ShiftFrom(blueprint.points, calculate_centroid(blueprint.points)),
        LAMBDA outline_com :
        StoneProperties_build(
            Mul(Mul(Abs(area), blueprint.thickness), DENSITY_SLATE),
            outline_com,
            generate_collision_mesh(outline_com, COLLISION_MESH_POINTS, area))))

-----------------------------------------------------------------------------
(* main.rs: from the editor's result to the integration loop *)

\* outlines drawn in the editor: a 0.4 x 0.1 plate, a unit square, a
\* triangle, an L, a thin diagonal sliver, and three lists without area
RectOutline == <<Vec2(0, 0), Vec2(400, 0), Vec2(400, 100), Vec2(0, 100)>>
SquareOutline == <<Vec2(0, 0), Vec2(1000, 0), Vec2(1000, 1000), Vec2(0, 1000)>>
TriangleOutline == <<Vec2(0, 0), Vec2(400, 0), Vec2(200, 300)>>
LOutline ==
    <<Vec2(0, 0), Vec2(400, 0), Vec2(400, 100), Vec2(100, 100), Vec2(100, 300),
      Vec2(0, 300)>>
SliverOutline == <<Vec2(0, 0), Vec2(1000, 1000), Vec2(1000, 1030)>>
LineOutline == <<Vec2(0, 0), Vec2(200, 200), Vec2(400, 400)>>
PairOutline == <<Vec2(0, 0), Vec2(400, 0)>>

Outlines ==
    {RectOutline, SquareOutline, TriangleOutline, LOutline, SliverOutline,
     LineOutline, PairOutline, <<>>}

\* where on the canvas the outline was drawn
Offsets == {Vec2(0, 0), Vec2(1000, 2000), Vec2(-3000, 500)}

Translated(points, off) == [i \in 1..Len(points) |-> VAdd(points[i], off)]

\* StoneBlueprint { points, thickness, .. }, drawn in either orientation
Blueprints ==
    {[points |-> P, thickness |-> th] :
        P \in UNION {{Translated(o, off), Reversed(Translated(o, off))} :
                        o \in Outlines, off \in Offsets},
        th \in {0, Dec(5, 100), Dec(1, 1)}}

\* the initial states the editor returns: a high throw and one at the surface
MainStates ==
    {StoneInfo(Vec2(0, 300), Vec2(5000, -1000), Vec2(200, 0), Vec2(0, 5000)),
     StoneInfo(Vec2(0, 20), Vec2(5000, -1000), Vec2(200, 0), Vec2(0, 5000))}

\* number of integration steps of the main loop
MaxFrames == 3

\* editor.result is Some((blueprint, y0)); system and solver are not built
\* yet and hold the values of a stone without mass
InitMain ==
    /\ arg \in Blueprints
    /\ y0 \in MainStates
    /\ system = CustomSettings_new(Gravity, StoneProperties_default)
    /\ solver = RungeKuttaSolver_new(0, y0)
    /\ dt \in Dts
    /\ pc = "editor"
    /\ steps = 0
    /\ evals = <<>>
    /\ trajectory = <<>>
    /\ prev_phase = "Flying"
    /\ ret = StoneProperties_default

\* let stone_props = StoneProperties::new(&blueprint)
MainNewStone ==
    /\ pc = "editor"
    /\ ret' = StoneProperties_new(arg)
    /\ pc' = "new_stone"
    /\ UNCHANGED <<system, solver, dt, steps, evals, y0, trajectory, prev_phase, arg>>

\* the construction of system and solver without the test of the mass
MainBuild_unchecked ==
    /\ pc = "new_stone"
    /\ system' = CustomSettings_new(Gravity, ret)
    /\ solver' = RungeKuttaSolver_new(0, y0)
    /\ pc' = "loop"
    /\ UNCHANGED <<dt, steps, evals, y0, trajectory, prev_phase, arg, ret>>

\* if stone_props.mass <= 1e-9 { return; } CustomSettings::new, Solver::new
MainBuild ==
    /\ pc = "new_stone"
    /\ IF ret.mass <= 0
       THEN /\ pc' = "return"
            /\ UNCHANGED <<system, solver>>
       ELSE /\ system' = CustomSettings_new(Gravity, ret)
            /\ solver' = RungeKuttaSolver_new(0, y0)
            /\ pc' = "loop"
    /\ UNCHANGED <<dt, steps, evals, y0, trajectory, prev_phase, arg, ret>>

\* one pass of the physics sub-step: (A) update_submerged_area in Bouncing,
\* (B) update_phase, (C) break on Sinking, (D) solver.step
MainFrame ==
    /\ pc = "loop"
    /\ steps < MaxFrames
    /\ \E sys \in {update_phase(IF system.phase = "Bouncing"
                                THEN update_submerged_area(system, solver.state)
                                ELSE system, solver.state)} :
          /\ system' = sys
          /\ IF sys.phase = "Sinking"
             THEN /\ pc' = "game_over"
                  /\ UNCHANGED <<solver, steps>>
             ELSE /\ solver' = step(solver, sys, dt)
                  /\ steps' = steps + 1
                  /\ pc' = "loop"
    /\ prev_phase' = system.phase
    /\ UNCHANGED <<dt, evals, y0, trajectory, arg, ret>>

NextMain == MainNewStone \/ MainBuild \/ MainFrame

SpecMain == InitMain /\ [][NextMain]_vars

\* C12: a body whose computed mass is at most 1e-9 is never integrated: the
\* run returns after StoneProperties::new, no step is counted, and system and
\* solver stay as they were.
C12_NoStepWithoutMass ==
    (pc # "editor" /\ ret.mass <= 0) =>
        /\ pc \in {"new_stone", "return"}
        /\ steps = 0
        /\ solver = RungeKuttaSolver_new(0, y0)
        /\ system = CustomSettings_new(Gravity, StoneProperties_default)

\* the run has returned for an outline with area but a thickness of zero
C12_Witness ==
    /\ pc = "return"
    /\ calculate_polygon_area(arg.points) > 0
    /\ Len(ret.outline_com) = 4
    /\ ret.mass = 0
    /\ steps = 0

-----------------------------------------------------------------------------
(* Properties of StoneProperties::new (SpecMain) *)

\* C13: StoneProperties::new returns the all-zero default (mass 0, inertias
\* 0, n 0, d_max 0, empty outline and mesh) whenever the area of the outline
\* is below 1e-9 or the collision sampling retains zero points.
C13_DefaultWithoutAreaOrSamples ==
    (pc = "new_stone"
        /\ \/ Abs(calculate_polygon_area(arg.points)) <= 0
           \/ ret.n = 0) =>
        ret = StoneProperties_default

\* C14: for a blueprint with area, drawn in either orientation at any place,
\* outline_com has the vertices of the blueprint in the same number and
\* order, each moved by the same vector, and its analytic centroid is the
\* origin.
C14_OutlineCentred ==
    (pc = "new_stone" /\ Abs(calculate_polygon_area(arg.points)) > 0) =>
        /\ Len(ret.outline_com) = Len(arg.points)
        /\ \A i \in 1..Len(arg.points) :
              VSub(arg.points[i], ret.outline_com[i])
                = VSub(arg.points[1], ret.outline_com[1])
        /\ calculate_centroid(ret.outline_com) = Vec2(0, 0)

\* a clockwise L drawn away from the origin: its centroid is not the mean of
\* its vertices
C14_Witness ==
    /\ pc = "new_stone"
    /\ Len(arg.points) = 6
    /\ SumCross(arg.points, 1) < 0
    /\ arg.points[1] # ret.outline_com[1]
    /\ calculate_centroid(arg.points).x > Dec(1, 1)
    /\ calculate_centroid(arg.points)
         # Vec2(Div(SumX(arg.points, 1), 6 * Scale), Div(SumY(arg.points, 1), 6 * Scale))
    /\ calculate_centroid(ret.outline_com) = Vec2(0, 0)

\* an axis-parallel square of side 1
IsUnitSquare(points) ==
    /\ Len(points) = 4
    /\ MaxXFrom(points, 1) - MinXFrom(points, 1) = Dec(1, 1)
    /\ AabbMaxY(points, 1) - AabbMinY(points, 1) = Dec(1, 1)
    /\ \A i \in 1..4 : /\ points[i].x \in {MinXFrom(points, 1), MaxXFrom(points, 1)}
                       /\ points[i].y \in {AabbMinY(points, 1), AabbMaxY(points, 1)}
    /\ \A i \in 1..4 : \A j \in 1..4 : i # j => points[i] # points[j]

\* C15: a unit square of thickness 1 has mass = density wherever it is
\* drawn; in general mass = |area| * thickness * density, and the mass does
\* not change when the blueprint is moved.
C15_MassOfUnitSquare ==
    (pc = "new_stone" /\ Abs(calculate_polygon_area(arg.points)) > 0) =>
        /\ (IsUnitSquare(arg.points) /\ arg.thickness = Dec(1, 1)) =>
              ret.mass = Dec(2700, 1)
        /\ IsUnitSquare(arg.points) => ret.mass = Mul(arg.thickness, Dec(2700, 1))
        /\ \A off \in Offsets :
              StoneProperties_new([arg EXCEPT !.points = Translated(arg.points, off)]).mass
                = ret.mass

\* the unit square of thickness 1 drawn away from the origin
C15_Witness ==
    /\ pc = "new_stone"
    /\ IsUnitSquare(arg.points)
    /\ arg.thickness = Dec(1, 1)
    /\ arg.points[1].x < 0
    /\ ret.mass = Dec(2700, 1)

\* C18: for a blueprint with area, d_max is the maximum of x^2 + y^2 over
\* collision_mesh_com and no vertex of outline_com is farther from the centre
\* of mass than that.
C18_DMaxBoundsOutline ==
    (pc = "new_stone" /\ Abs(calculate_polygon_area(arg.points)) > 0) =>
        /\ \A i \in 1..Len(ret.collision_mesh_com) :
              length_squared(ret.collision_mesh_com[i]) <= ret.d_max
        /\ \/ \E i \in 1..Len(ret.collision_mesh_com) :
                 length_squared(ret.collision_mesh_com[i]) = ret.d_max
           \/ (ret.n = 0 /\ ret.d_max = 0)
        /\ \A i \in 1..Len(ret.outline_com) :
              length_squared(ret.outline_com[i]) <= ret.d_max

-----------------------------------------------------------------------------
(* calculate.rs: HyperionState and CustomOscillator under the generic       *)
(* RungeKuttaSolver::step.  The f64 fields are fixed-point numbers with 16  *)
(* decimals, held as hi * Word + lo with 0 <= lo < Word, so that the        *)
(* per-step change of theta^2 + omega^2 (about 1.4e-14) is representable.   *)

Limb == 10000
Word == 100000000

Big(hi, lo) == [hi |-> hi, lo |-> lo]
BigNorm(hi, lo) == Big(hi + (lo \div Word), lo % Word)
BigZero == Big(0, 0)
BigOne == Big(Word, 0)
BigAdd(a, b) == BigNorm(a.hi + b.hi, a.lo + b.lo)
BigSub(a, b) == BigNorm(a.hi - b.hi, a.lo - b.lo)
BigNeg(a) == BigNorm(-a.hi, -a.lo)
BigLeq(a, b) == a.hi < b.hi \/ (a.hi = b.hi /\ a.lo <= b.lo)

\* a * n for a small natural n
BigTimes(a, n) == BigNorm(a.hi * n, a.lo * n)

\* floor(a / d) for a small positive d, by long division over the limbs
BigFloorDiv(a, d) ==
    Let((a.hi % d) * Limb + (a.lo \div Limb), LAMBDA t1 :
    Let((t1 % d) * Limb + (a.lo % Limb), LAMBDA t0 :
        Big(a.hi \div d, (t1 \div d) * Limb + (t0 \div d))))

\* a / d rounded to the nearest
BigRoundDiv(a, d) == BigFloorDiv(BigAdd(a, Big(0, d \div 2)), d)

\* the scalars of step: the rational n / d
Rat(n, d) == [n |-> n, d |-> d]
RatMul(a, b) == Rat(a.n * b.n, a.d * b.d)
RatDiv(a, b) == Rat(a.n * b.d, a.d * b.n)

\* x * scalar
BigScale(x, scalar) == BigRoundDiv(BigTimes(x, scalar.n), scalar.d)

HyperionState(theta, omega) == [theta |-> theta, omega |-> omega]

HyperionState_add(a, b) ==
    HyperionState(BigAdd(a.theta, b.theta), BigAdd(a.omega, b.omega))

HyperionState_scale(a, scalar) ==
    HyperionState(BigScale(a.theta, scalar), BigScale(a.omega, scalar))

CustomOscillator_derivatives(t, y) == HyperionState(y.omega, BigNeg(y.theta))

\* the four slopes of step for T = HyperionState
OscStages(t, y, h) ==
    Let(CustomOscillator_derivatives(t, y), LAMBDA k1 :
    Let(HyperionState_add(y, HyperionState_scale(k1, RatMul(Rat(1, 2), h))),
        LAMBDA k2_state :
    Let(CustomOscillator_derivatives(t, k2_state), LAMBDA k2 :
    Let(HyperionState_add(y, HyperionState_scale(k2, RatMul(Rat(1, 2), h))),
        LAMBDA k3_state :
    Let(CustomOscillator_derivatives(t, k3_state), LAMBDA k3 :
    Let(HyperionState_add(y, HyperionState_scale(k3, h)), LAMBDA k4_state :
    Let(CustomOscillator_derivatives(t, k4_state), LAMBDA k4 :
        [k1 |-> k1, k2 |-> k2, k3 |-> k3, k4 |-> k4])))))))

\* the update with the four slopes weighted equally
OscCombine_unweighted(self, k, h) ==
    [t |-> BigAdd(self.t, BigScale(BigOne, h)),
     state |-> HyperionState_add(self.state,
                  HyperionState_scale(
                      HyperionState_add(HyperionState_add(HyperionState_add(
                          k.k1, k.k2), k.k3), k.k4),
                      RatDiv(h, Rat(6, 1))))]

\* delta = (k1 + 2 k2 + 2 k3 + k4) * (dt / 6), state = y + delta, t += dt
OscCombine(self, k, h) ==
    [t |-> BigAdd(self.t, BigScale(BigOne, h)),
     state |-> HyperionState_add(self.state,
                  HyperionState_scale(
                      HyperionState_add(HyperionState_add(HyperionState_add(
                          k.k1, HyperionState_scale(k.k2, Rat(2, 1))),
                          HyperionState_scale(k.k3, Rat(2, 1))), k.k4),
                      RatDiv(h, Rat(6, 1))))]

\* number of steps of the oscillator run
MaxOscSteps == 1000

\* RungeKuttaSolver::new(0.0, HyperionState { theta: 1.0, omega: 0.0 }), dt = 0.01
InitOsc ==
    /\ solver = [t |-> BigZero, state |-> HyperionState(BigOne, BigZero)]
    /\ arg = Rat(1, 100)
    /\ system = CustomSettings_new(Gravity, Plate)
    /\ y0 = StoneInfo(Vec2(0, 300), Vec2(0, 0), Vec2(0, 0), Vec2(0, 0))
    /\ dt \in Dts
    /\ pc = "oscillator"
    /\ steps = 0
    /\ evals = <<>>
    /\ trajectory = <<>>
    /\ prev_phase = "Flying"
    /\ ret = <<>>

\* solver.step(&CustomOscillator, dt)
OscStep ==
    /\ pc \in {"oscillator", "osc_step"}
    /\ steps < MaxOscSteps
    /\ solver' = OscCombine(solver, OscStages(solver.t, solver.state, arg), arg)
    /\ steps' = steps + 1
    /\ pc' = "osc_step"
    /\ UNCHANGED <<system, dt, evals, y0, trajectory, prev_phase, arg, ret>>

NextOsc == OscStep

SpecOsc == InitOsc /\ [][NextOsc]_vars

\* the five limbs of |a|, lowest first
BigLimbs(a) ==
    Let(IF a.hi < 0 THEN BigNeg(a) ELSE a, LAMBDA m :
        <<m.lo % Limb, m.lo \div Limb, m.hi % Limb, (m.hi \div Limb) % Limb,
          m.hi \div Word>>)

\* column k of the product a * b: the sum of a[i] * b[k - i]
RECURSIVE ProductColumn(_, _, _, _)
ProductColumn(a, b, k, i) ==
    IF i > 4 THEN 0
    ELSE (IF k - i \in 0..4 THEN a[i + 1] * b[k - i + 1] ELSE 0)
           + ProductColumn(a, b, k, i + 1)

\* the digits of a number given by its columns, the carries moved up
RECURSIVE CarryUp(_, _, _)
CarryUp(columns, k, carry) ==
    IF k > Len(columns) THEN <<>>
    ELSE IF k = Len(columns) THEN <<columns[k] + carry>>
    ELSE <<(columns[k] + carry) % Limb>>
           \o CarryUp(columns, k + 1, (columns[k] + carry) \div Limb)

\* theta^2 + omega^2, exact to 32 decimals and cut to 16
Energy(y) ==
    Let(BigLimbs(y.theta), LAMBDA a :
    Let(BigLimbs(y.omega), LAMBDA b :
    Let(CarryUp([k \in 1..9 |-> ProductColumn(a, a, k - 1, 0)
                                  + ProductColumn(b, b, k - 1, 0)], 1, 0),
        LAMBDA d :
        Big(d[9] * Word + d[8] * Limb + d[7], d[6] * Limb + d[5]))))

\* C19: every RK4 step of the oscillator from theta = 1, omega = 0 with
\* dt = 0.01 leaves theta^2 + omega^2 no larger than before and smaller by
\* at most dt^4 = 1e-8, so that after n steps it lies between 1 - n * dt^4
\* and 1.
C19_EnergyWithinDt4 ==
    [][pc' = "osc_step" =>
        /\ BigLeq(Energy(solver'.state), Energy(solver.state))
        /\ BigLeq(BigSub(Energy(solver.state), Energy(solver'.state)), Big(1, 0))
        /\ BigLeq(Energy(solver'.state), BigOne)
        /\ BigLeq(BigSub(BigOne, Energy(solver'.state)), Big(steps', 0))]_vars

\* 1000 steps taken: more than one and a half periods, the sum has decayed
C19_Witness ==
    /\ pc = "osc_step"
    /\ steps = 1000
    /\ solver.state.theta.hi < 0
    /\ solver.state.omega.hi > 0
    /\ Energy(solver.state) # BigOne
    /\ BigLeq(Big(Word - 1, 0), Energy(solver.state))

-----------------------------------------------------------------------------
(* The order of the driver loop (Spec) *)

\* C21: in each iteration update_phase is evaluated once, on the pre-step
\* state and before solver.step; the system it leaves is the one all four
\* derivative evaluations of the step read, so they all use the phase it
\* produced; update_submerged_area runs before it only when the phase was
\* already Bouncing; nothing else changes the system.
C21_PhaseOncePerStep ==
    [][/\ pc = "area" =>
             /\ pc' = "phase"
             /\ system' = IF system.phase = "Bouncing"
                          THEN update_submerged_area(system, solver.state)
                          ELSE system
             /\ solver' = solver
       /\ pc = "phase" =>
             /\ pc' = "check"
             /\ system' = update_phase(system, solver.state)
             /\ arg' = solver.state
             /\ solver' = solver
       /\ pc = "check" => (pc' \in {"step", "done"} /\ system' = system /\ solver' = solver)
       /\ pc = "step" =>
             /\ pc' = "record"
             /\ arg = solver.state
             /\ system' = system
             /\ \E k \in {Stages(system, solver.t, arg, dt)} :
                    /\ evals' = k.at
                    /\ solver' = Combine(solver, k, dt)
       /\ pc \in {"record", "done"} => system' = system]_vars

\* a step taken in the iteration in which update_phase left Flying: the area
\* was not updated in it, and the step ran with the new phase
C21_Witness ==
    /\ pc = "record"
    /\ steps >= 1
    /\ Len(evals) = 4
    /\ system.phase = "Bouncing"
    /\ prev_phase = "Bouncing"
    /\ system.current_submerged_polygon = <<>>
    /\ solver.state # y0

-----------------------------------------------------------------------------
(* The frame of solver.step (SpecApi) *)

\* the system with the cache of update_submerged_area as new() leaves it
Uncached(self) ==
    [self EXCEPT !.Sim = Dec(1, 100), !.current_submerged_polygon = <<>>]

\* C22: a step changes only the solver's t and state, the system (phase,
\* coefficients, Sim, current_submerged_polygon) and dt stay as they were;
\* its successor is determined by (t, state, phase, properties, dt): the
\* same step taken with another cache gives the same successor.
C22_StepFrame ==
    [][pc' = "step" =>
          /\ system' = system
          /\ dt' = dt
          /\ solver'.t = solver.t + dt
          /\ solver' = step(solver, Uncached(system), dt)]_vars

\* a step in the water taken with a cache that differs from the initial one
C22_Witness ==
    /\ pc = "step"
    /\ system.phase = "Bouncing"
    /\ system.Sim # Dec(1, 100)
    /\ system.current_submerged_polygon # <<>>
    /\ solver.state # y0

-----------------------------------------------------------------------------
(* The gravity term of the Bouncing derivative (SpecApi) *)

\* C23: for a stone whose instantaneous submerged area is zero the linear
\* acceleration of the Bouncing derivative is that of the Flying one,
\* (0, -gravity), up to the rounding of 1/effective_mass.
C23_BouncingGravityDown ==
    \A stone \in ApiStates \cup {solver.state} :
        calculate_instant_submerged(system, stone).sim = 0 =>
            Let(deriv_bouncing(system, solver.t, stone).velocity, LAMBDA acc :
                /\ acc.x = deriv_flying(system, solver.t, stone).velocity.x
                /\ Abs(acc.y - deriv_flying(system, solver.t, stone).velocity.y)
                       <= Dec(5, 100))

-----------------------------------------------------------------------------
(* pressure_center and the analytic centroid (SpecPC) *)

\* C24: for a vertex list with at least 3 vertices and a positive area, in
\* either orientation, pressure_center returns the point calculate_centroid
\* returns (to within the rounding of the stored factor 1/(6*area)).
C24_PressureCenterIsCentroid ==
    (pc = "pressure_center" /\ Len(arg) >= 3 /\ polygon_area(arg) > 0) =>
        Let(calculate_centroid(arg), LAMBDA centroid :
            /\ Abs(ret.x - centroid.x) <= Dec(1, 100)
            /\ Abs(ret.y - centroid.y) <= Dec(1, 100))

-----------------------------------------------------------------------------
(* The spin damping of compute_angular_acceleration (SpecApi) *)

\* spin angular velocities of both signs
Spins == {-Dec(5, 1), -Dec(1, 1), 0, Dec(1, 1), Dec(5, 1)}

\* C25: for every spin angular velocity w the spin component of
\* compute_angular_acceleration opposes w (spin_acc * w <= 0) and is zero
\* only when w is zero.
C25_SpinDampingDissipative ==
    \A stone \in ApiStates \cup {solver.state} : \A w \in Spins :
        Let(calculate_instant_submerged(system, stone), LAMBDA inst :
        Let(compute_angular_acceleration(
                system, [stone EXCEPT !.angle_velocity.y = w], inst.sim,
                inst.clipped, compute_hydro_force(system, stone, inst.sim)).y,
            LAMBDA spin_acc :
                /\ spin_acc * w <= 0
                /\ (spin_acc = 0) <=> (w = 0)))

-----------------------------------------------------------------------------
(* The limits of compute_angular_acceleration (SpecApi) *)

\* submerged polygons away from the stone, in both orientations
FarPolygons ==
    {<<Vec2(1000, -1000), Vec2(2000, -1000), Vec2(2000, -500), Vec2(1000, -500)>>,
     <<Vec2(-300, -400), Vec2(-300, -100), Vec2(100, -100), Vec2(100, -400)>>}

\* hydrodynamic forces up to a thousand newtons
Forces == {Vec2(-Dec(1000, 1), Dec(1000, 1)), Vec2(Dec(50, 1), -Dec(300, 1))}

\* the square of max_arm with the rounding of the two squares of a length
MaxArmSquared == Mul(Dec(2, 10), Dec(2, 10)) + 1

\* C26: at every step, for the state it starts from and the state last handed
\* to update_phase, for every submerged polygon and hydrodynamic force, the
\* pitch component of compute_angular_acceleration lies in [-500, 500] and
\* the lever arm of the torque is no longer than 0.2.
C26_PitchAndArmLimited ==
    [][pc' = "step" =>
        \A stone \in {solver.state, arg} :
            Let(calculate_instant_submerged(system, stone), LAMBDA inst :
                \A clipped \in {inst.clipped} \cup FarPolygons :
                    /\ length_squared(lever_arm(stone, clipped)) <= MaxArmSquared
                    /\ \A f_hydro \in {compute_hydro_force(system, stone, inst.sim)}
                                      \cup Forces :
                          Let(compute_angular_acceleration(
                                  system, stone, polygon_area(clipped), clipped,
                                  f_hydro).x,
                              LAMBDA pitch_acc :
                                  /\ pitch_acc >= -Dec(500, 1)
                                  /\ pitch_acc <= Dec(500, 1)))]_vars

\* a step was taken in the water from a state where the pitch acceleration
\* sits on the limit and whose lever arm to a far polygon is pulled back
C26_Witness ==
    /\ pc = "step"
    /\ system.phase = "Bouncing"
    /\ Len(evals) = 4
    /\ Let(calculate_instant_submerged(system, evals[1].y), LAMBDA inst :
           /\ inst.sim > 0
           /\ \E clipped \in FarPolygons :
                  /\ length_squared(lever_arm_unlimited(evals[1].y, clipped))
                         > MaxArmSquared
                  /\ lever_arm(evals[1].y, clipped)
                         # lever_arm_unlimited(evals[1].y, clipped)
           /\ compute_angular_acceleration(
                  system, evals[1].y, inst.sim, inst.clipped,
                  compute_hydro_force(system, evals[1].y, inst.sim)).x
                  \in {-Dec(500, 1), Dec(500, 1)})

-----------------------------------------------------------------------------
(* The end of the run at Sinking (Spec) *)

-----------------------------------------------------------------------------
(* The cache of the submerged area at a step (Spec) *)

\* the cache of the system is the one update_submerged_area stores for stone
CacheOf(stone) ==
    Let(calculate_instant_submerged(system, stone), LAMBDA inst :
        /\ system.Sim = inst.sim
        /\ system.current_submerged_polygon = inst.clipped)

\* C28 as stated: at every step executed while the phase is Bouncing the
\* cached Sim and current_submerged_polygon are those of the pre-step state.
C28_CacheIsPreStep ==
    (pc = "step" /\ system.phase = "Bouncing") => CacheOf(solver.state)

\* C28, amended: at a step executed while the phase is Bouncing in an
\* iteration that began in Bouncing the cache is that of the pre-step state;
\* in the iteration in which update_phase switched Flying to Bouncing the
\* cache was not refreshed: it is the one new() left (Sim 0.01, no polygon)
\* or the one of an earlier recorded state.
C28_CacheIsPreStepOnceBouncing ==
    (pc = "step" /\ system.phase = "Bouncing") =>
        IF prev_phase = "Bouncing" THEN CacheOf(solver.state)
        ELSE /\ prev_phase = "Flying"
             /\ \/ system = Uncached(system)
                \/ \E i \in 1..(Len(trajectory) - 1) : CacheOf(trajectory[i].state)

\* a step in an iteration that began in Bouncing, with a submerged polygon
C28_Witness ==
    /\ pc = "step"
    /\ system.phase = "Bouncing"
    /\ prev_phase = "Bouncing"
    /\ Len(system.current_submerged_polygon) >= 3
    /\ system.Sim > 0
    /\ system.Sim # Dec(1, 100)

-----------------------------------------------------------------------------
(* The vertices returned by clip_polygon_below_line (SpecClip) *)

\* v lies on the edge of poly that starts at vertex i
OnEdge(v, poly, i) ==
    LET p1 == poly[i]
        p2 == poly[(i % Len(poly)) + 1]
    IN  /\ (v.x - p1.x) * (p2.y - p1.y) = (v.y - p1.y) * (p2.x - p1.x)
        /\ Min(p1.x, p2.x) <= v.x /\ v.x <= Max(p1.x, p2.x)
        /\ Min(p1.y, p2.y) <= v.y /\ v.y <= Max(p1.y, p2.y)

\* C29: every vertex returned by clip_polygon_below_line has y <= line_y and
\* is an input vertex strictly below the line or a point with y = line_y on
\* an input edge; the output has at most 2n vertices for n input vertices
\* and is empty for an empty input.
C29_ClipVertices ==
    pc = "clip1" =>
        /\ Len(ret[1]) <= 2 * Len(arg.poly)
        /\ Len(arg.poly) = 0 => ret[1] = <<>>
        /\ \A k \in 1..Len(ret[1]) :
              /\ ret[1][k].y <= arg.y0
              /\ \/ /\ ret[1][k].y < arg.y0
                    /\ \E i \in 1..Len(arg.poly) : arg.poly[i] = ret[1][k]
                 \/ /\ ret[1][k].y = arg.y0
                    /\ \E i \in 1..Len(arg.poly) : OnEdge(ret[1][k], arg.poly, i)

\* a clip that returned more vertices than it was given, some of them input
\* vertices and some of them new points on the line
C29_Witness ==
    /\ pc = "clip1"
    /\ Len(ret[1]) > Len(arg.poly)
    /\ \E k \in 1..Len(ret[1]) : ret[1][k].y < arg.y0
    /\ \E k \in 1..Len(ret[1]) :
          /\ ret[1][k].y = arg.y0
          /\ \A i \in 1..Len(arg.poly) : arg.poly[i] # ret[1][k]

-----------------------------------------------------------------------------
(* The driver loop run to its end (SpecLive) *)

\* the positions of the loop body and its exit
LoopPositions == {"record", "area", "phase", "check", "step", "done"}

\* the loop moves on to another position: every action of Next does so, and
\* one of them is enabled at every position but "done"
Advance == pc # "done" /\ pc' \in LoopPositions /\ pc' # pc

\* the loop is sequential code: it does not stop between two statements
SpecLive == Spec /\ WF_pc(Advance)

\* iterations left to a flight for it to come down before max_steps
MaxFlight == 20

\* C30: a body in phase Flying eventually enters Bouncing: from every Flying
\* state of the loop that has MaxFlight iterations left, the test of
\* update_phase holds after finitely many steps and the phase is Bouncing.
C30_FlyingReachesWater ==
    (system.phase = "Flying" /\ steps + MaxFlight <= MaxSteps)
        ~> (system.phase = "Bouncing")

\* update_phase ended a flight that began by leaving the water upward
C30_Witness ==
    /\ pc = "check"
    /\ system.phase = "Bouncing"
    /\ prev_phase = "Flying"
    /\ arg.position.y - Mul(Sqrt(system.stone.d_max), Sin(arg.angle.x))
           <= system.water_level
    /\ \E i \in 1..Len(trajectory) :
          /\ trajectory[i].state.velocity.y > 0
          /\ i + MaxFlight <= MaxSteps

=============================================================================
